---------------------------- MODULE Spec2Model ----------------------------
(***************************************************************************)
(* Model of the item reconciliation core of batch_po_invoice_app.py:       *)
(* token_similarity (the similarity scorer) and compare_structures (the    *)
(* greedy one-to-one reconciler).                                          *)
(*                                                                         *)
(* Python strings are sequences of one-character strings.  Python scalars  *)
(* (None, int, str) are records [tag, s] that carry the type name and the  *)
(* text str() prints for the value.  A dict is a function whose DOMAIN is  *)
(* the set of keys present.  Scores are exact fractions [num, den]; the    *)
(* rounding error of binary floating point is not modelled.                *)
(***************************************************************************)
EXTENDS Integers, Sequences, FiniteSets, TLC

(* ------------------------------ bounds --------------------------------- *)

\* Longest description drawn for the scorer's inputs.
MaxLen == 3

\* Largest number of line items (purchase order and invoice together) drawn
\* for one pair of documents.
MaxItems == 3

(* --------------------------- Python values ----------------------------- *)

PyNone == [tag |-> "NoneType", s |-> "None"]

PyInt(numeral) == [tag |-> "int", s |-> numeral]

PyStr(text) == [tag |-> "str", s |-> text]

\* str(v): the text of the value, whatever its type.
Str(v) == v.s

\* d.get(k, default)
Get(d, k, default) == IF k \in DOMAIN d THEN d[k] ELSE default

(* ------------------------------ strings -------------------------------- *)

WordChars == {"a", "b", "c", "A", "B"}

Chars == {"a", "b", "A", " ", "!"}

\* str.lower() on one character.
LowerChar(c) == CASE c = "A" -> "a" [] c = "B" -> "b" [] OTHER -> c

Lower(str) == [i \in 1..Len(str) |-> LowerChar(str[i])]

\* re.findall(r"\w+", s) as a set: the maximal runs of word characters.
Tokens(str) ==
  { SubSeq(str, i, j) : <<i, j>> \in
      { p \in (1..Len(str)) \X (1..Len(str)) :
          /\ p[1] <= p[2]
          /\ \A k \in p[1]..p[2] : str[k] \in WordChars
          /\ (p[1] = 1 \/ str[p[1] - 1] \notin WordChars)
          /\ (p[2] = Len(str) \/ str[p[2] + 1] \notin WordChars) } }

\* Length of the common run of x from i and y from j, inside x[..ahi], y[..bhi].
RECURSIVE RunLen(_, _, _, _, _, _)
RunLen(x, y, i, j, ahi, bhi) ==
  IF i <= ahi /\ j <= bhi /\ x[i] = y[j]
    THEN 1 + RunLen(x, y, i + 1, j + 1, ahi, bhi)
    ELSE 0

\* SequenceMatcher.find_longest_match without junk: the longest block, of
\* those the one starting earliest in x, of those the one earliest in y.
\* Positions alo..ahi and blo..bhi are inclusive; size 0 means no match.
FindLongestMatch(x, y, alo, ahi, blo, bhi) ==
  LET cand == { <<i, j>> \in (alo..ahi) \X (blo..bhi) : x[i] = y[j] }
      size(p) == RunLen(x, y, p[1], p[2], ahi, bhi)
  IN  IF cand = {} THEN [i |-> alo, j |-> blo, size |-> 0]
      ELSE LET best == CHOOSE p \in cand :
                         \A q \in cand :
                           \/ size(p) > size(q)
                           \/ /\ size(p) = size(q)
                              /\ \/ p[1] < q[1]
                                 \/ p[1] = q[1] /\ p[2] <= q[2]
           IN  [i |-> best[1], j |-> best[2], size |-> size(best)]

\* SequenceMatcher.get_matching_blocks, summed: the longest match, then the
\* pieces to its left and to its right.
RECURSIVE MatchingChars(_, _, _, _, _, _)
MatchingChars(x, y, alo, ahi, blo, bhi) ==
  IF alo > ahi \/ blo > bhi THEN 0
  ELSE LET m == FindLongestMatch(x, y, alo, ahi, blo, bhi)
       IN  IF m.size = 0 THEN 0
           ELSE m.size
                + MatchingChars(x, y, alo, m.i - 1, blo, m.j - 1)
                + MatchingChars(x, y, m.i + m.size, ahi, m.j + m.size, bhi)

\* SequenceMatcher(None, x, y).ratio() = 2.0 * matches / length, 1.0 when
\* both are empty.
Ratio(x, y) ==
  LET length == Len(x) + Len(y)
  IN  IF length = 0 THEN [num |-> 1, den |-> 1]
      ELSE [num |-> 2 * MatchingChars(x, y, 1, Len(x), 1, Len(y)),
            den |-> length]

Max(m, n) == IF m >= n THEN m ELSE n

(* ------------------------------ fractions ------------------------------ *)

Zero == [num |-> 0, den |-> 1]

One == [num |-> 1, den |-> 1]

Greater(p, q) == p.num * q.den > q.num * p.den

Same(p, q) == p.num * q.den = q.num * p.den

\* The comparison the wrong way round: p <= t / 100.
AtMost(p, t) == p.num * 100 <= t * p.den

\* p >= t / 100
AtLeast(p, t) == p.num * 100 >= t * p.den

\* round(p, 2) in hundredths, ties to the even hundredth.
Round2(p) ==
  LET q == (p.num * 100) \div p.den
      r == (p.num * 100) % p.den
  IN  IF 2 * r > p.den THEN q + 1
      ELSE IF 2 * r = p.den THEN q + (q % 2)
      ELSE q

(* --------------------------- token_similarity -------------------------- *)

token_similarity(x, y) ==
  LET a_tokens == Tokens(Lower(x))
      b_tokens == Tokens(Lower(y))
      overlap == [num |-> Cardinality(a_tokens \cap b_tokens),
                  den |-> Max(Cardinality(a_tokens \cup b_tokens), 1)]
      char_sim == Ratio(Lower(x), Lower(y))
  IN  [num |-> overlap.num * char_sim.den + char_sim.num * overlap.den,
       den |-> 2 * overlap.den * char_sim.den]


(* ------------------------------ documents ------------------------------ *)

PyDict(d) == [tag |-> "dict", d |-> d]

PyList(seq) == [tag |-> "list", v |-> seq]

\* bool(v) as `... if po_struct else []` evaluates it: None and {} are false.
Truthy(v) == v.tag = "dict" /\ DOMAIN v.d # {}

\* Line items as the document-structuring collaborator may hand them over:
\* any of the keys may be missing, numbers may arrive as strings or null.
Items ==
  { [description |-> <<"a", "b">>, qty |-> PyInt("2"),
       unit_price |-> PyInt("25"), total |-> PyInt("50")],
    [description |-> <<"A", "b">>, total |-> PyStr("50")],
    [description |-> <<"a", "b", " ", "c">>, total |-> PyInt("60")],
    [description |-> <<"a", "b">>, total |-> PyNone],
    [description |-> <<"a", "b", " ", "c">>, qty |-> PyInt("2")],
    [qty |-> PyInt("2")] }

RECURSIVE SeqsUpTo(_, _)
SeqsUpTo(S, n) ==
  IF n = 0 THEN { <<>> }
  ELSE LET shorter == SeqsUpTo(S, n - 1)
       IN  shorter \cup { Append(q, x) : q \in { r \in shorter : Len(r) = n - 1 },
                                         x \in S }

\* The document records: null, empty, without the items key, with a null
\* items value, or with a list of line items.
Structs ==
  { PyNone, PyDict(<<>>), PyDict([number |-> PyStr("7")]),
    PyDict([items |-> PyNone]) }
  \cup { PyDict([items |-> PyList(q)]) : q \in SeqsUpTo(Items, MaxItems) }

ItemCount(struct) ==
  IF struct.tag = "dict" /\ "items" \in DOMAIN struct.d
      /\ struct.d.items.tag = "list"
    THEN Len(struct.d.items.v)
    ELSE 0

\* Thresholds in hundredths: the slider's lowest value 50 and the degenerate
\* values 0 and 100.  The descriptions above score 0, 1/2, 7/12 or 1 against
\* each other, so 100 stands for every threshold above 7/12, the slider's
\* default 70 among them.
Thresholds == {0, 50, 100}

(* ------------------------------- state --------------------------------- *)

VARIABLES
  po_struct,             \* compare_structures' first argument
  inv_struct,            \* compare_structures' second argument
  item_match_threshold,  \* its third argument, in hundredths
  pc,                    \* "po_loop", "done" or "raised"
  po_pos,                \* purchase-order items processed so far
  inv_used,              \* invoice indices claimed (1-based here)
  rows,                  \* the rows appended so far
  best_idxs,             \* history: best_idx of each purchase-order row, 0 = None
  claims,                \* history: <<po position, idx>> of every inv_used.add
  results,               \* the frames returned by the earlier calls on this pair
  a, b,                  \* token_similarity's arguments
  similarity,            \* its result once sc = "returned"
  sc                     \* "idle", "call" or "returned"

vars == <<po_struct, inv_struct, item_match_threshold, pc, po_pos, inv_used,
          rows, best_idxs, claims, results, a, b, similarity, sc>>

reconciler_vars == <<po_struct, inv_struct, item_match_threshold, pc, po_pos,
                     inv_used, rows, best_idxs, claims, results>>

scorer_vars == <<a, b, similarity, sc>>

(* -------------------------- compare_structures ------------------------- *)

EmptyList == PyList(<<>>)

Blank == PyStr("")

\* po_struct.get("items", []) if po_struct else []
ItemsOf(struct) ==
  IF Truthy(struct) THEN Get(struct.d, "items", EmptyList) ELSE EmptyList

po_items == ItemsOf(po_struct)

inv_items == ItemsOf(inv_struct)

\* Iterating the value: a list can be, None raises TypeError.
Iterable(v) == v.tag = "list"

Description(it) == Get(it, "description", <<>>)

\* The inner loop with the `if idx in inv_used: continue` left out.
RECURSIVE NoSkipScan(_, _, _, _, _)
NoSkipScan(po_it, invs, used, idx, best) ==
  IF idx > Len(invs) THEN best
  ELSE LET score == token_similarity(Description(po_it), Description(invs[idx]))
       IN  IF Greater(score, best.score)
             THEN NoSkipScan(po_it, invs, used, idx + 1,
                             [score |-> score, idx |-> idx])
             ELSE NoSkipScan(po_it, invs, used, idx + 1, best)

\* The inner loop with `score >= best_score`: the last of equals wins.
RECURSIVE LastWinsScan(_, _, _, _, _)
LastWinsScan(po_it, invs, used, idx, best) ==
  IF idx > Len(invs) THEN best
  ELSE IF idx \in used THEN LastWinsScan(po_it, invs, used, idx + 1, best)
  ELSE LET score == token_similarity(Description(po_it), Description(invs[idx]))
       IN  IF ~ Greater(best.score, score)
             THEN LastWinsScan(po_it, invs, used, idx + 1,
                               [score |-> score, idx |-> idx])
             ELSE LastWinsScan(po_it, invs, used, idx + 1, best)

\* The inner loop from index idx on: a claimed index is skipped, and an
\* unclaimed candidate replaces the best so far only when its score is
\* strictly greater.
RECURSIVE Scan(_, _, _, _, _)
Scan(po_it, invs, used, idx, best) ==
  IF idx > Len(invs) THEN best
  ELSE IF idx \in used THEN Scan(po_it, invs, used, idx + 1, best)
  ELSE LET score == token_similarity(Description(po_it), Description(invs[idx]))
       IN  IF Greater(score, best.score)
             THEN Scan(po_it, invs, used, idx + 1,
                       [score |-> score, idx |-> idx])
             ELSE Scan(po_it, invs, used, idx + 1, best)

\* best_score = 0.0, best_idx = None, then the inner loop.
BestMatch(po_it, invs, used) ==
  Scan(po_it, invs, used, 1, [score |-> Zero, idx |-> 0])

\* if best_idx is not None and best_score >= item_match_threshold
ShouldClaim(best, threshold) ==
  best.idx # 0 /\ AtLeast(best.score, threshold)

\* inv_used.add(best_idx) forgotten.
ForgetUsed(used, idx) == used

\* inv_used.add(best_idx)
MarkUsed(used, idx) == used \cup {idx}

Status(best_score, threshold, po_total, inv_total) ==
  IF AtLeast(best_score, threshold) /\ Str(po_total) = Str(inv_total)
    THEN "Match"
  ELSE IF AtLeast(best_score, threshold) THEN "Partial Match"
  ELSE "Mismatch"

\* The row of one purchase-order item; best.idx = 0 stands for no match.
PoRow(po_it, invs, best, threshold) ==
  LET has == best.idx # 0
      po_total == Get(po_it, "total", Blank)
      inv_total == IF has THEN Get(invs[best.idx], "total", Blank) ELSE Blank
  IN  [PO_Item |-> Description(po_it),
       PO_Qty |-> Get(po_it, "qty", Blank),
       PO_Price |-> Get(po_it, "unit_price", Blank),
       PO_Total |-> po_total,
       Invoice_Item |-> IF has THEN Description(invs[best.idx]) ELSE <<>>,
       Invoice_Qty |-> IF has THEN Get(invs[best.idx], "qty", Blank) ELSE Blank,
       Invoice_Price |->
         IF has THEN Get(invs[best.idx], "unit_price", Blank) ELSE Blank,
       Invoice_Total |-> inv_total,
       Status |-> Status(best.score, threshold, po_total, inv_total),
       Match_Score |-> Round2(best.score)]

\* The row of an invoice item left unused.
InvRow(inv_it) ==
  [PO_Item |-> <<>>, PO_Qty |-> Blank, PO_Price |-> Blank, PO_Total |-> Blank,
   Invoice_Item |-> Description(inv_it),
   Invoice_Qty |-> Get(inv_it, "qty", Blank),
   Invoice_Price |-> Get(inv_it, "unit_price", Blank),
   Invoice_Total |-> Get(inv_it, "total", Blank),
   Status |-> "Mismatch",
   Match_Score |-> 0]

\* The second loop without its `if idx not in inv_used`.
RECURSIVE AllRows(_, _, _)
AllRows(invs, used, idx) ==
  IF idx > Len(invs) THEN <<>>
  ELSE <<InvRow(invs[idx])>> \o AllRows(invs, used, idx + 1)

\* The second loop: a row for every index that is not in used, in order.
RECURSIVE UnusedRows(_, _, _)
UnusedRows(invs, used, idx) ==
  IF idx > Len(invs) THEN <<>>
  ELSE IF idx \notin used
         THEN <<InvRow(invs[idx])>> \o UnusedRows(invs, used, idx + 1)
         ELSE UnusedRows(invs, used, idx + 1)

Fresh ==
  /\ pc = "po_loop"
  /\ po_pos = 0
  /\ inv_used = {}
  /\ rows = <<>>
  /\ best_idxs = <<>>
  /\ claims = <<>>

ScorerIdle == a = <<>> /\ b = <<>> /\ similarity = Zero /\ sc = "idle"

Init ==
  /\ po_struct \in Structs
  /\ inv_struct \in Structs
  /\ ItemCount(po_struct) + ItemCount(inv_struct) <= MaxItems
  /\ item_match_threshold \in Thresholds
  /\ Fresh
  /\ results = <<>>
  /\ ScorerIdle

\* One iteration of `for po_it in po_items`.
PoItem ==
  /\ pc = "po_loop"
  /\ Iterable(po_items)
  /\ po_pos < Len(po_items.v)
  /\ IF ~ Iterable(inv_items)
       THEN /\ pc' = "raised"
            /\ UNCHANGED <<po_pos, inv_used, rows, best_idxs, claims>>
       ELSE LET po_it == po_items.v[po_pos + 1]
                best == BestMatch(po_it, inv_items.v, inv_used)
                claim == ShouldClaim(best, item_match_threshold)
            IN  /\ inv_used' = IF claim THEN MarkUsed(inv_used, best.idx)
                                        ELSE inv_used
                /\ claims' = IF claim
                               THEN Append(claims, <<po_pos + 1, best.idx>>)
                               ELSE claims
                /\ best_idxs' = Append(best_idxs, best.idx)
                /\ rows' = Append(rows, PoRow(po_it, inv_items.v, best,
                                              item_match_threshold))
                /\ po_pos' = po_pos + 1
                /\ pc' = "po_loop"
  /\ UNCHANGED <<po_struct, inv_struct, item_match_threshold, results>>
  /\ UNCHANGED scorer_vars

\* `for po_it in po_items` over a null items value.
PoItemsNotIterable ==
  /\ pc = "po_loop"
  /\ ~ Iterable(po_items)
  /\ pc' = "raised"
  /\ UNCHANGED <<po_struct, inv_struct, item_match_threshold, po_pos,
                 inv_used, rows, best_idxs, claims, results>>
  /\ UNCHANGED scorer_vars

\* The loop over the invoice items still unused, and the return.
Leftover ==
  /\ pc = "po_loop"
  /\ Iterable(po_items)
  /\ po_pos = Len(po_items.v)
  /\ IF ~ Iterable(inv_items)
       THEN pc' = "raised" /\ rows' = rows
       ELSE /\ rows' = rows \o UnusedRows(inv_items.v, inv_used, 1)
            /\ pc' = "done"
  /\ UNCHANGED <<po_struct, inv_struct, item_match_threshold, po_pos,
                 inv_used, best_idxs, claims, results>>
  /\ UNCHANGED scorer_vars

\* The same pair of documents compared again with the slider moved up.
Rerun ==
  /\ pc = "done"
  /\ \E t \in Thresholds :
       /\ t > item_match_threshold
       /\ item_match_threshold' = t
  /\ results' = Append(results, [threshold |-> item_match_threshold,
                                 rows |-> rows])
  /\ pc' = "po_loop"
  /\ po_pos' = 0
  /\ inv_used' = {}
  /\ rows' = <<>>
  /\ best_idxs' = <<>>
  /\ claims' = <<>>
  /\ UNCHANGED <<po_struct, inv_struct>>
  /\ UNCHANGED scorer_vars

Next == PoItem \/ PoItemsNotIterable \/ Leftover \/ Rerun

Spec == Init /\ [][Next]_vars

(* ------------------------- the scorer on its own ----------------------- *)

RECURSIVE StringsUpTo(_)
StringsUpTo(n) ==
  IF n = 0 THEN { <<>> }
  ELSE LET shorter == StringsUpTo(n - 1)
       IN  shorter \cup { Append(q, c) : q \in { r \in shorter : Len(r) = n - 1 },
                                         c \in Chars }

InitScore ==
  /\ a \in StringsUpTo(MaxLen)
  /\ b \in StringsUpTo(MaxLen)
  /\ similarity = Zero
  /\ sc = "call"
  /\ po_struct = PyNone
  /\ inv_struct = PyNone
  /\ item_match_threshold = 70
  /\ Fresh
  /\ results = <<>>

TokenSimilarity ==
  /\ sc = "call"
  /\ similarity' = token_similarity(a, b)
  /\ sc' = "returned"
  /\ UNCHANGED <<a, b>>
  /\ UNCHANGED reconciler_vars

NextScore == TokenSimilarity

SpecScore == InitScore /\ [][NextScore]_vars

(* ----------------------- vocabulary of the properties ------------------ *)

\* The purchase-order rows are rows[1..PoRows]; the rows after them are the
\* unmatched-invoice rows.
PoRows == Len(best_idxs)

InvIndices == IF Iterable(inv_items) THEN 1..Len(inv_items.v) ELSE {}

\* The indices claimed before purchase-order item k was processed.
UsedBefore(k) == { claims[c][2] : c \in { d \in 1..Len(claims) : claims[d][1] < k } }

Unclaimed(k) == InvIndices \ UsedBefore(k)

ClaimedBy(k) == { claims[c][2] : c \in { d \in 1..Len(claims) : claims[d][1] = k } }

ScoreOf(k, idx) ==
  token_similarity(Description(po_items.v[k]), Description(inv_items.v[idx]))

\* The best score of purchase-order row k: that of the item it selected.
BestScoreOf(k) == IF best_idxs[k] = 0 THEN Zero ELSE ScoreOf(k, best_idxs[k])

Paired == {"Match", "Partial Match"}

\* sum(df["Status"] == ...) over a returned frame.
CountStatus(frame, statuses) ==
  Cardinality({ k \in 1..Len(frame) : frame[k].Status \in statuses })

InvoiceFieldsBlank(row) ==
  /\ row.Invoice_Item = <<>>
  /\ row.Invoice_Qty = Blank
  /\ row.Invoice_Price = Blank
  /\ row.Invoice_Total = Blank

InvoiceFieldsOf(row, inv_it) ==
  /\ row.Invoice_Item = Description(inv_it)
  /\ row.Invoice_Qty = Get(inv_it, "qty", Blank)
  /\ row.Invoice_Price = Get(inv_it, "unit_price", Blank)
  /\ row.Invoice_Total = Get(inv_it, "total", Blank)

\* The item carries a total: the key is there and its value is not null.
CarriesTotal(it) == "total" \in DOMAIN it /\ it.total # PyNone

(* ------------------------------ properties ----------------------------- *)

\* C1. Claim uniqueness: after any prefix of the purchase-order items, no
\* invoice index has been added to inv_used for more than one purchase-order
\* item: the claims are injective, and inv_used holds exactly their indices.
ClaimUniqueness ==
  /\ \A k, l \in 1..Len(claims) : k # l => claims[k][2] # claims[l][2]
  /\ inv_used = { claims[k][2] : k \in 1..Len(claims) }
  /\ Cardinality(inv_used) = Len(claims)

\* C1 witness: the second purchase-order item has been processed, it scores
\* at least the threshold against the invoice item the first one claimed, and
\* that claim is still the only one.
SecondItemMetClaimedItem ==
  /\ po_pos = 2
  /\ claims = << <<1, 1>> >>
  /\ item_match_threshold > 0
  /\ AtLeast(ScoreOf(2, 1), item_match_threshold)

\* C2. Row-count law: the returned frame has one row per purchase-order item
\* plus one per invoice item whose index was never claimed during the call.
RowCountLaw ==
  pc = "done" =>
    Len(rows) = Len(po_items.v)
                + Cardinality(InvIndices \ { claims[k][2] : k \in 1..Len(claims) })

\* C2 witness: a call returned with one invoice item claimed and another not.
ReturnedWithClaimedAndUnclaimed ==
  /\ pc = "done"
  /\ claims # <<>>
  /\ InvIndices \ inv_used # {}

\* C3. Threshold monotonicity: against every earlier call on the same pair
\* with a threshold no higher, this call returns no more Match and Partial
\* Match rows (together) and no fewer Mismatch rows.
ThresholdMonotonicity ==
  pc = "done" =>
    \A r \in 1..Len(results) :
      results[r].threshold <= item_match_threshold =>
        /\ CountStatus(rows, Paired) <= CountStatus(results[r].rows, Paired)
        /\ CountStatus(rows, {"Mismatch"})
             >= CountStatus(results[r].rows, {"Mismatch"})

\* C3 witness: the two thresholds pair different items: the first
\* purchase-order row was paired under the lower threshold and is a Mismatch
\* under the higher, the second the other way round.
PairingMovedToSecondItem ==
  /\ pc = "done"
  /\ PoRows >= 2
  /\ \E r \in 1..Len(results) :
       /\ results[r].threshold < item_match_threshold
       /\ results[r].rows[1].Status \in Paired
       /\ rows[1].Status = "Mismatch"
       /\ results[r].rows[2].Status = "Mismatch"
       /\ rows[2].Status \in Paired

\* C4 as stated. Match-count monotonicity: against every earlier call with a
\* threshold no higher, this call returns no more rows of status Match.
MatchCountMonotone ==
  pc = "done" =>
    \A r \in 1..Len(results) :
      results[r].threshold <= item_match_threshold =>
        CountStatus(rows, {"Match"}) <= CountStatus(results[r].rows, {"Match"})

\* C4 amended: the number of Match rows under the higher threshold is never
\* greater than the number of Match and Partial Match rows (together) under
\* the lower one.
MatchBoundedByEarlierPaired ==
  pc = "done" =>
    \A r \in 1..Len(results) :
      results[r].threshold <= item_match_threshold =>
        CountStatus(rows, {"Match"}) <= CountStatus(results[r].rows, Paired)

\* C4 witness: raising the threshold raised the number of Match rows.
MatchCountRose ==
  /\ pc = "done"
  /\ \E r \in 1..Len(results) :
       /\ results[r].threshold < item_match_threshold
       /\ CountStatus(rows, {"Match"}) > CountStatus(results[r].rows, {"Match"})

\* C5 as stated. Status by totals: a purchase-order row is a Match only if
\* its best score is at least the threshold, both items carry a total and the
\* totals are equal as strings; with the score at least the threshold and the
\* totals different or either of them absent, the row is a Partial Match.
StatusByTotals ==
  \A k \in 1..PoRows :
    LET po_it == po_items.v[k]
        idx == best_idxs[k]
        reached == AtLeast(BestScoreOf(k), item_match_threshold)
        both == /\ CarriesTotal(po_it)
                /\ idx # 0
                /\ CarriesTotal(inv_items.v[idx])
        equal == /\ idx # 0
                 /\ Str(Get(po_it, "total", Blank))
                      = Str(Get(inv_items.v[idx], "total", Blank))
    IN  /\ rows[k].Status = "Match" => reached /\ both /\ equal
        /\ reached /\ (~ equal \/ ~ both) => rows[k].Status = "Partial Match"

NoItemInTwoPoRows ==
  \A k, l \in 1..PoRows :
    k # l /\ best_idxs[k] # 0 => best_idxs[k] # best_idxs[l]

\* C7 amended: no invoice item has its fields reported in more than one
\* purchase-order row of status Match or Partial Match, and the returned
\* frame has an unmatched-invoice row for exactly the invoice items that no
\* such row reports.
NoItemInTwoPairedRows ==
  /\ \A k, l \in 1..PoRows :
       /\ k # l
       /\ best_idxs[k] # 0
       /\ rows[k].Status \in Paired
       /\ rows[l].Status \in Paired
       => best_idxs[k] # best_idxs[l]
  /\ pc = "done" =>
       Len(rows) - PoRows =
         Cardinality(InvIndices \ { best_idxs[k] :
                        k \in { l \in 1..PoRows : rows[l].Status \in Paired } })

\* C7 witness: an invoice item is reported in a Mismatch row and again in a
\* later row that pairs it.
ReportedThenPaired ==
  \E k, l \in 1..PoRows :
    /\ k < l
    /\ best_idxs[k] # 0
    /\ best_idxs[k] = best_idxs[l]
    /\ rows[k].Status = "Mismatch"
    /\ rows[l].Status \in Paired

\* C8 as stated. Totality on missing inputs: compare_structures never raises,
\* whatever is missing of the two documents.
NeverRaises == pc # "raised"

\* C9 as stated. Score identity: token_similarity(a, a) is 1.0 for every
\* non-empty string a.
ScoreIdentity ==
  sc = "returned" /\ a = b /\ a # <<>> => Same(similarity, One)

\* The unclaimed index the claim's selection rule names for row k: of those
\* attaining the greatest score, the lowest.
GreedyChoice(k) ==
  CHOOSE m \in Unclaimed(k) :
    \A n \in Unclaimed(k) :
      \/ Greater(ScoreOf(k, m), ScoreOf(k, n))
      \/ Same(ScoreOf(k, m), ScoreOf(k, n)) /\ m <= n

\* Row k reports the greedy choice and claims it exactly when its score is at
\* least the threshold.
ReportsGreedyChoice(k) ==
  LET m == GreedyChoice(k)
  IN  /\ best_idxs[k] = m
      /\ InvoiceFieldsOf(rows[k], inv_items.v[m])
      /\ ClaimedBy(k) = IF AtLeast(ScoreOf(k, m), item_match_threshold)
                          THEN {m} ELSE {}

\* C10 as stated. Greedy selection and reporting: whenever an unclaimed
\* invoice item remains, the row reports the lowest-index unclaimed item of
\* greatest score, also below the threshold, and claims it if and only if its
\* score is at least the threshold.
GreedySelection ==
  \A k \in 1..PoRows : Unclaimed(k) # {} => ReportsGreedyChoice(k)

\* C10 amended: the same whenever some unclaimed invoice item scores more
\* than 0; when every unclaimed item scores 0 the row reports no invoice item
\* and claims none.
GreedySelectionAmongPositive ==
  \A k \in 1..PoRows :
    IF \E n \in Unclaimed(k) : Greater(ScoreOf(k, n), Zero)
      THEN ReportsGreedyChoice(k)
      ELSE /\ best_idxs[k] = 0
           /\ InvoiceFieldsBlank(rows[k])
           /\ ClaimedBy(k) = {}

\* C10 witness: two unclaimed invoice items tie at the greatest score, which
\* is positive and below the threshold; the row reports the first of them.
TieBelowThresholdReportsFirst ==
  \E k \in 1..PoRows :
    \E m, n \in Unclaimed(k) :
      /\ m < n
      /\ Same(ScoreOf(k, m), ScoreOf(k, n))
      /\ Greater(ScoreOf(k, m), Zero)
      /\ ~ AtLeast(ScoreOf(k, m), item_match_threshold)
      /\ best_idxs[k] = m

=============================================================================
